---- MODULE Spec2Model ----
(***************************************************************************)
(* Model of raml-to-markdown's two public operations, parse and render     *)
(* (src/libs/index.js).  Text is a sequence of one-character strings, so   *)
(* that joining, path building and the output content filter are computed  *)
(* and not assumed.                                                        *)
(***************************************************************************)
EXTENDS Integers, Sequences, FiniteSets, TLC

VARIABLES
    DefaultConfig,  \* module.exports.DefaultConfig, the shared object
    calls,          \* number of parse/render calls started so far
    op,             \* "none", "parse" or "render": the call in flight
    override,       \* the caller's configuration of the call in flight
    config,         \* the merged configuration render works on (line 81)
    parseConfig,    \* the merged configuration parse works on (line 214)
    listing,        \* per input path: the files listed, or the listing failure
    slots,          \* per launched raml2obj.parse: "pending"/"resolved"/"rejected"
    failures,       \* history: the failures of the call, in order of occurrence
    completed,      \* history: the launched parses, in order of completion
    inner,          \* per input path: the promise of line 228 (or 233)
    outer,          \* the promise of Promise.all at line 218
    parsePromise,   \* the promise parse returns
    renderPromise,  \* the promise render returns
    fsOps,          \* the mkdirp and writeFileSync calls of the call, in order
    stdout,         \* the process.stdout.write calls of the call, in order
    emits           \* history: each application of the output content filter

vars == <<DefaultConfig, calls, op, override, config, parseConfig, listing, slots,
          failures, completed, inner, outer, parsePromise, renderPromise, fsOps, stdout, emits>>

(***************************************************************************)
(* Bounds                                                                  *)
(***************************************************************************)
MaxCalls == 2
MaxPaths == 2

(***************************************************************************)
(* Text                                                                    *)
(***************************************************************************)
NL == "\n"

Null == <<"null">>

RECURSIVE Flatten(_)
Flatten(ss) ==
    IF ss = <<>> THEN <<>> ELSE Head(ss) \o Flatten(Tail(ss))

Min(S) == CHOOSE x \in S : \A y \in S : x <= y

Sign(n) == IF n < 0 THEN -1 ELSE IF n > 0 THEN 1 ELSE 0

\* UTF-16 code unit of the characters display names are made of
CodeUnit(c) ==
    CASE c = "B" -> 66
      [] c = "a" -> 97
      [] c = "b" -> 98
      [] OTHER   -> 0

\* Collation: the primary weight is the letter, the tertiary weight its case
\* (lower case first), as in the root collation String.localeCompare uses.
Primary(c) ==
    CASE c = "a" -> 1
      [] c = "b" -> 2
      [] c = "B" -> 2
      [] OTHER   -> 0

Tertiary(c) == IF c = "B" THEN 1 ELSE 0

Weight(level, c) ==
    CASE level = "primary"  -> Primary(c)
      [] level = "tertiary" -> Tertiary(c)
      [] OTHER              -> CodeUnit(c)

\* Strings compared character by character on one level of weights
LexCompare(a, b, level) ==
    LET n     == IF Len(a) < Len(b) THEN Len(a) ELSE Len(b)
        diffs == {i \in 1..n : Weight(level, a[i]) # Weight(level, b[i])}
    IN  IF diffs = {}
        THEN Sign(Len(a) - Len(b))
        ELSE Sign(Weight(level, a[Min(diffs)]) - Weight(level, b[Min(diffs)]))

\* String.prototype.localeCompare
LocaleCompare(a, b) ==
    IF LexCompare(a, b, "primary") # 0
    THEN LexCompare(a, b, "primary")
    ELSE LexCompare(a, b, "tertiary")

\* The comparison of < and > on strings
CodeUnitCompare(a, b) == LexCompare(a, b, "codeUnit")

\* Variant: the display names compared by code units, as < and > would
PropsComparatorCodeUnits(a, b) == CodeUnitCompare(a.displayName, b.displayName)

\* (a, b) => a.displayName.localeCompare(b.displayName)
PropsComparator(a, b) == LocaleCompare(a.displayName, b.displayName)

\* displayName[0] is undefined for an empty name; < and > with undefined are false
FirstCharCompare(a, b) ==
    IF a = <<>> \/ b = <<>> THEN 0
    ELSE Sign(CodeUnit(a[1]) - CodeUnit(b[1]))

VersionComparator(a, b) == FirstCharCompare(a.displayName, b.displayName)

Compare(kind, a, b) ==
    IF kind = "props" THEN PropsComparator(a, b) ELSE VersionComparator(a, b)

\* Array.prototype.sort: stable
RECURSIVE Insert(_, _, _)
Insert(kind, x, s) ==
    IF s = <<>> THEN <<x>>
    ELSE IF Compare(kind, x, Head(s)) < 0 THEN <<x>> \o s
    ELSE <<Head(s)>> \o Insert(kind, x, Tail(s))

RECURSIVE SortAcc(_, _, _)
SortAcc(kind, s, acc) ==
    IF s = <<>> THEN acc ELSE SortAcc(kind, Tail(s), Insert(kind, Head(s), acc))

ArraySort(kind, s) == SortAcc(kind, s, <<>>)

(***************************************************************************)
(* Documents                                                               *)
(***************************************************************************)
Undefined == [has |-> FALSE, list |-> <<>>]

Props(names) == [has |-> TRUE, list |-> [i \in 1..Len(names) |-> [displayName |-> names[i]]]]

NoItems == [has |-> FALSE, properties |-> Undefined]

Items(props) == [has |-> TRUE, properties |-> props]

Node(name, uid, props, items, res, meths, resps, bodies) ==
    [displayName |-> name, uniqueId |-> uid, properties |-> props, items |-> items,
     resources |-> res, methods |-> meths, responses |-> resps, body |-> bodies]

Leaf(name, props, items) == Node(name, <<>>, props, items, <<>>, <<>>, <<>>, <<>>)

deepKeys == <<"resources", "methods", "responses", "body">>

\* body.properties || body.items.properties throws when both are missing
CallbackThrows(body) == ~body.properties.has /\ ~body.items.has

CallbackProps(body) ==
    IF body.properties.has THEN "properties"
    ELSE IF body.items.properties.has THEN "items.properties"
    ELSE "none"

Callback(body) ==
    CASE CallbackProps(body) = "properties" ->
            [body EXCEPT !.properties.list = ArraySort("props", @)]
      [] CallbackProps(body) = "items.properties" ->
            [body EXCEPT !.items.properties.list = ArraySort("props", @)]
      [] OTHER -> body

RECURSIVE NodeThrows(_)
NodeThrows(node) ==
    \/ CallbackThrows(node)
    \/ \E k \in 1..Len(deepKeys) :
          \E i \in 1..Len(node[deepKeys[k]]) : NodeThrows(node[deepKeys[k]][i])

RECURSIVE VisitNode(_)
VisitNode(node) ==
    LET n == Callback(node)
    IN  [n EXCEPT !.resources = [i \in 1..Len(@) |-> VisitNode(@[i])],
                  !.methods   = [i \in 1..Len(@) |-> VisitNode(@[i])],
                  !.responses = [i \in 1..Len(@) |-> VisitNode(@[i])],
                  !.body      = [i \in 1..Len(@) |-> VisitNode(@[i])]]

recursiveEachThrows(items) == \E i \in 1..Len(items) : NodeThrows(items[i])

recursiveEach(items) == [i \in 1..Len(items) |-> VisitNode(items[i])]

(***************************************************************************)
(* Output side: content filter, joining, paths, template rendering         *)
(***************************************************************************)
JsString(s) == [t |-> "string", s |-> s]

JsUndefined == [t |-> "undefined", s |-> <<>>]

Truthy(v) == v.t = "string" /\ v.s # <<>>

NewlineRun(n) == IF n >= 3 THEN <<NL, NL>> ELSE [i \in 1..n |-> NL]

\* item => item.replace(/\n{3,}/g, "\n\n")
RECURSIVE CollapseNewlines(_, _)
CollapseNewlines(s, run) ==
    IF s = <<>> THEN NewlineRun(run)
    ELSE IF Head(s) = NL THEN CollapseNewlines(Tail(s), run + 1)
    ELSE NewlineRun(run) \o <<Head(s)>> \o CollapseNewlines(Tail(s), 0)

\* The output content filters a caller may configure, by name; "default" is
\* the one DefaultConfig carries, "null" is no filter.
ContentFilterCall(f, rendered) ==
    CASE f = "default" -> JsString(CollapseNewlines(rendered, 0))
      [] f = "empty"   -> JsString(<<>>)
      [] f = "undef"   -> JsUndefined
      [] f = "mark"    -> JsString(<<"!">> \o rendered)
      [] OTHER         -> JsUndefined

\* Variant: the filter's value taken whatever it is
FilterOutputAlways(contentFilter, rendered) ==
    IF contentFilter # "null" THEN ContentFilterCall(contentFilter, rendered).s ELSE rendered

\* (contentFilter && contentFilter(rendered)) || rendered
FilterOutput(contentFilter, rendered) ==
    IF contentFilter # "null" /\ Truthy(ContentFilterCall(contentFilter, rendered))
    THEN ContentFilterCall(contentFilter, rendered).s
    ELSE rendered

\* Variant: one blank line between documents
SeparatorTwo == <<NL, NL>>

\* join("\n\n\n")
Separator == <<NL, NL, NL>>

\* Array.prototype.join
RECURSIVE ArrayJoin(_, _)
ArrayJoin(arr, sep) ==
    IF arr = <<>> THEN <<>>
    ELSE IF Len(arr) = 1 THEN arr[1]
    ELSE arr[1] \o sep \o ArrayJoin(Tail(arr), sep)

\* path.resolve with the working directory "/"
PathResolve(p) == IF p # <<>> /\ p[1] = "/" THEN p ELSE <<"/">> \o p

\* path.join of a directory and a file name
PathJoin(dir, name) ==
    IF name # <<>> /\ name[1] = "/" THEN dir \o name ELSE dir \o <<"/">> \o name

PropsText(node) ==
    IF node.properties.has
    THEN <<"(">> \o Flatten([i \in 1..Len(node.properties.list) |->
                                node.properties.list[i].displayName \o <<",">>]) \o <<")">>
    ELSE <<>>

ResourceText(r) ==
    r.displayName \o <<"_">> \o r.uniqueId \o PropsText(r)
      \o Flatten([i \in 1..Len(r.resources) |-> <<NL, "+">> \o r.resources[i].displayName])

\* nunjucks.render(template, context): the text depends on the template and on
\* the context's name, properties and resources, in their order
NunjucksRender(template, item) ==
    template \o <<":">> \o item.displayName \o PropsText(item)
      \o Flatten([i \in 1..Len(item.resources) |->
                     <<NL, NL, NL, "-">> \o ResourceText(item.resources[i])])

(***************************************************************************)
(* Configuration                                                           *)
(***************************************************************************)
TemplateIndex == <<"t">>

TemplateHome == <<"h">>

OutDir == <<"o">>

ExtMd == <<".", "m", "d">>

ExtTxt == <<".", "x">>

\* module.exports.DefaultConfig as the module builds it when it is loaded
DefaultConfigAtLoad ==
    [input  |-> [paths |-> <<>>, recursive |-> FALSE, fileFilter |-> "regexp",
                 templateFile |-> TemplateIndex, contentFilter |-> "null"],
     output |-> [type |-> "ReturnOnly",
                 file |-> [splitting |-> "AllInOne", path |-> Null, extension |-> ExtMd],
                 contentFilter |-> "default"]]

ObjectKeys == {"input", "output", "file"}

ArrayKeys == {"paths"}

\* extend's deep copy of an array: index by index
ExtendArray(target, copy) ==
    [i \in 1..(IF Len(target) > Len(copy) THEN Len(target) ELSE Len(copy)) |->
        IF i <= Len(copy) THEN copy[i] ELSE target[i]]

\* extend(true, target, source): plain objects and arrays are merged into a
\* clone of the target's value, everything else is assigned
RECURSIVE Extend(_, _)
Extend(target, source) ==
    [k \in DOMAIN target \cup DOMAIN source |->
        IF k \notin DOMAIN source THEN target[k]
        ELSE IF k \in ObjectKeys
             THEN Extend(IF k \in DOMAIN target THEN target[k] ELSE <<>>, source[k])
        ELSE IF k \in ArrayKeys
             THEN ExtendArray(IF k \in DOMAIN target THEN target[k] ELSE <<>>, source[k])
        ELSE source[k]]

\* Variant: extend(true, this.DefaultConfig, config)
ExtendTargetShared == "DefaultConfig"

\* The first object handed to extend: the literal { } of lines 81 and 214
ExtendTarget == "fresh"

\* config = extend(true, { }, this.DefaultConfig, config): the merged
\* configuration, and what the shared default object holds afterwards
MergeConfig(shared, cfg) ==
    LET target == IF ExtendTarget = "fresh" THEN <<>> ELSE shared
        merged == Extend(Extend(target, shared), cfg)
    IN  [config |-> merged,
         shared |-> IF ExtendTarget = "fresh" THEN shared ELSE merged]

(***************************************************************************)
(* The input file system, the file lister and the RAML parser              *)
(***************************************************************************)
DirEntries(path) ==
    CASE path = "api"     -> <<"api/a.raml", "api/notes.txt", "api/old", "api/b.raml">>
      [] path = "api/old" -> <<"api/old/c.raml">>
      [] OTHER            -> <<>>

IsDirectory(path) == path \in {"api", "api/old"}

IsFile(path) ==
    path \in {"api/a.raml", "api/notes.txt", "api/b.raml", "api/old/c.raml",
              "v.raml", "plain.raml", "bad.raml"}

\* new RegExp('\.raml$').test(path)
RegExpTest(path) ==
    path \in {"api/a.raml", "api/b.raml", "api/old/c.raml", "v.raml", "plain.raml", "bad.raml"}

\* typeof fileFilter === 'object' ? path => config.input.fileFilter.test(path) : fileFilter
FileFilter(fileFilter, path) ==
    IF fileFilter = "regexp" THEN RegExpTest(path) ELSE path # "api/b.raml"

RECURSIVE listFiles(_, _, _)
listFiles(path, recursive, fileFilter) ==
    IF IsFile(path)
    THEN IF FileFilter(fileFilter, path) THEN <<path>> ELSE <<>>
    ELSE Flatten([i \in 1..Len(DirEntries(path)) |->
            IF IsDirectory(DirEntries(path)[i]) /\ ~recursive THEN <<>>
            ELSE listFiles(DirEntries(path)[i], recursive, fileFilter)])

NoReason == [kind |-> "none", at |-> <<0, 0>>]

\* A joint promise over n promises: its state, and the values stored so far
JointPromise(n, hole) ==
    [state |-> IF n = 0 THEN "resolved" ELSE "pending", reason |-> NoReason,
     values |-> [i \in 1..n |-> hole], filled |-> 0]

Rejected(reason) == [state |-> "rejected", reason |-> reason, values |-> <<>>, filled |-> 0]

\* Variant: a catch that resolves with no files
ListingOutcomeSwallowed(cfg, i) ==
    [ok |-> TRUE,
     files |-> IF IsFile(cfg.input.paths[i]) \/ IsDirectory(cfg.input.paths[i])
               THEN listFiles(cfg.input.paths[i], cfg.input.recursive, cfg.input.fileFilter)
               ELSE <<>>,
     reason |-> NoReason]

\* try { files = helper.listFiles(...) } catch(e) { return Promise.reject(e) }
ListingOutcome(cfg, i) ==
    IF IsFile(cfg.input.paths[i]) \/ IsDirectory(cfg.input.paths[i])
    THEN [ok |-> TRUE,
          files |-> listFiles(cfg.input.paths[i], cfg.input.recursive, cfg.input.fileFilter),
          reason |-> NoReason]
    ELSE [ok |-> FALSE, files |-> <<>>, reason |-> [kind |-> "NotFoundError", at |-> <<i, 0>>]]

Sorted2 == Props(<<<<"a">>, <<"b">>>>)

Unsorted3 == Props(<<<<"B">>, <<"b">>, <<"a">>>>)

Unsorted2 == Props(<<<<"b">>, <<"a", "b">>>>)

EmptyItems == Items(Undefined)

Endpoint(name) == Leaf(name, Undefined, EmptyItems)

\* What raml2obj.parse yields for each file that parses
ParsedDocument(file) ==
    CASE file = "api/a.raml" ->
            Node(<<"A">>, <<>>, Unsorted3, NoItems,
                 << Node(<<"b">>, <<>>, Undefined, Items(Unsorted2), <<>>,
                         << Node(<<"g">>, <<>>, Sorted2, NoItems, <<>>, <<>>,
                                 << Node(<<"2">>, <<>>, Undefined, EmptyItems, <<>>, <<>>, <<>>,
                                         << Leaf(<<"j">>, Unsorted2, Items(Unsorted3)) >>) >>,
                                 <<>>) >>,
                         <<>>, <<>>),
                    Leaf(<<"a">>, Undefined, EmptyItems) >>,
                 <<>>, <<>>, <<>>)
      [] file = "api/b.raml" ->
            Node(<<"B">>, <<>>, Sorted2, NoItems,
                 << Leaf(<<"a">>, Unsorted2, NoItems),
                    Leaf(<<"a">>, Undefined, EmptyItems) >>,
                 <<>>, <<>>, <<>>)
      [] file = "api/old/c.raml" ->
            Node(<<"C">>, <<>>, Undefined, EmptyItems, <<>>, <<>>, <<>>, <<>>)
      [] file = "v.raml" ->
            Node(<<"V">>, <<>>, Undefined, EmptyItems,
                 << Node(<<"1">>, <<"v", "1">>, Undefined, EmptyItems,
                         << Endpoint(<<"b">>), Endpoint(<<"a", "b">>), Endpoint(<<"B">>) >>,
                         <<>>, <<>>, <<>>),
                    Node(<<"2">>, <<"v", "2">>, Undefined, EmptyItems,
                         << Endpoint(<<"a">>), Endpoint(<<"a">>) >>,
                         <<>>, <<>>, <<>>),
                    Node(<<"3">>, <<"v", "3">>, Undefined, EmptyItems, <<>>, <<>>, <<>>, <<>>) >>,
                 <<>>, <<>>, <<>>)
      [] OTHER ->
            \* plain.raml: its one resource has neither properties nor items
            Node(<<"P">>, <<>>, Sorted2, NoItems,
                 << Leaf(<<"a">>, Undefined, NoItems) >>, <<>>, <<>>, <<>>)

\* How raml2obj.parse(file) settles
ParseOutcome(file) == IF file = "bad.raml" THEN "rejected" ELSE "resolved"

\* Promise.all: rejected with the first rejection, resolved once all resolved
PromiseAllFulfilled(states) == \A i \in 1..Len(states) : states[i] = "resolved"

\* Variant: the values collected in the order the promises resolve
PromiseAllStoreInOrderOfCompletion(values, filled, index, value) ==
    [values EXCEPT ![filled + 1] = value]

\* Promise.all keeps each value at the index of the promise it came from
PromiseAllStore(values, filled, index, value) == [values EXCEPT ![index] = value]

\* The joint promise after the promise at index settled (event) with a value
\* or a reason; states are the states of all its promises after the event
PromiseAll(current, states, event, index, value, reason) ==
    IF current.state # "pending" THEN current
    ELSE IF event = "rejected" THEN Rejected(reason)
    ELSE [state  |-> IF PromiseAllFulfilled(states) THEN "resolved" ELSE "pending",
          reason |-> NoReason,
          values |-> PromiseAllStore(current.values, current.filled, index, value),
          filled |-> current.filled + 1]

\* Promise.all over promises of which some have settled already: they are
\* taken up in index order
RECURSIVE PromiseAllInit(_, _, _)
PromiseAllInit(current, promises, i) ==
    IF i > Len(promises) THEN current
    ELSE IF promises[i].state = "pending" THEN PromiseAllInit(current, promises, i + 1)
    ELSE PromiseAllInit(
            PromiseAll(current, [p \in 1..Len(promises) |->
                                    IF p <= i THEN promises[p].state ELSE "pending"],
                       promises[i].state, i, promises[i].values, promises[i].reason),
            promises, i + 1)

\* helper.unwindArray: one flat sequence, outer order then inner order
unwindArray(items) == Flatten(items)

\* An input content filter a caller may configure: it renames the document
InputFilterCall(f, item) == [item EXCEPT !.displayName = <<"~">> \o @]

\* (contentFilter && relaxed.map(contentFilter)) || relaxed
FilterInput(contentFilter, relaxed) ==
    IF contentFilter # "null"
    THEN [i \in 1..Len(relaxed) |-> InputFilterCall(contentFilter, relaxed[i])]
    ELSE relaxed

(***************************************************************************)
(* render's output branches                                                *)
(***************************************************************************)
Mkdirp(path) == [op |-> "mkdirp", path |-> path, data |-> <<>>, doc |-> 0]

Write_(path, data, d) == [op |-> "write", path |-> path, data |-> data, doc |-> d]

\* fs.existsSync(path), the output directory being empty when render starts
ExistsSync(path, ops) == \E k \in 1..Len(ops) : ops[k].op = "write" /\ ops[k].path = path

Emitted(site, raw, out, d) == [site |-> site, raw |-> raw, out |-> out, doc |-> d]

\* if(!fs.existsSync(p)) helper.mkdirp(p); fs.writeFileSync(p, data)
WriteFile(acc, path, data, d) ==
    (IF ExistsSync(path, acc) THEN acc ELSE Append(acc, Mkdirp(path)))
        \o <<Write_(path, data, d)>>

\* helper.map(files, item => filter(nunjucks.render(templateFile, item)))
RenderAll(cfg, files) ==
    [i \in 1..Len(files) |->
        FilterOutput(cfg.output.contentFilter,
                     NunjucksRender(PathResolve(cfg.input.templateFile), files[i]))]

RenderAllEmits(cfg, files, site) ==
    [i \in 1..Len(files) |->
        Emitted(site, NunjucksRender(PathResolve(cfg.input.templateFile), files[i]),
                RenderAll(cfg, files)[i], i)]

OutputPath(cfg) ==
    IF cfg.output.file.path = Null THEN Null ELSE PathResolve(cfg.output.file.path)

\* Variant: the assignment left out
ResourceContextWhole(item, res) == item

\* item.resources = [ res ]
ResourceContext(item, res) == [item EXCEPT !.resources = <<res>>]

\* One page: render the context, filter, join the path, create, write
Page(cfg, acc, item, name, site, d) ==
    LET raw      == NunjucksRender(PathResolve(cfg.input.templateFile), item)
        rendered == FilterOutput(cfg.output.contentFilter, raw)
        filePath == PathJoin(OutputPath(cfg), name \o cfg.output.file.extension)
    IN  [ops   |-> WriteFile(acc.ops, filePath, rendered, d),
         emits |-> Append(acc.emits, Emitted(site, raw, rendered, d))]

\* helper.each(item.resources, res => { ... }) of lines 115-129: arr is the
\* array the call was handed, item the document the callback assigns to
RECURSIVE EachResource(_, _, _, _, _, _)
EachResource(cfg, acc, item, arr, k, d) ==
    IF k > Len(arr) THEN acc
    ELSE LET ctx == ResourceContext(item, arr[k])
         IN  EachResource(cfg, Page(cfg, acc, ctx, arr[k].displayName, "resource", d),
                          ctx, arr, k + 1, d)

RECURSIVE OnePerResource(_, _, _, _)
OnePerResource(cfg, acc, files, d) ==
    IF d > Len(files) THEN acc
    ELSE OnePerResource(cfg, EachResource(cfg, acc, files[d], files[d].resources, 1, d),
                        files, d + 1)

\* lines 137-149: each version group's endpoints sorted in place
SortVersions(item) ==
    [item EXCEPT !.resources =
        [v \in 1..Len(@) |-> [@[v] EXCEPT !.resources = ArraySort("version", @)]]]

\* lines 152-164
HomeTemplate(cfg) ==
    IF "homeTemplateFile" \in DOMAIN cfg.input
    THEN PathResolve(cfg.input.homeTemplateFile) ELSE <<>>

HomePage(cfg, acc, item, d) ==
    IF HomeTemplate(cfg) = <<>> THEN acc
    ELSE LET raw      == NunjucksRender(HomeTemplate(cfg), item)
             rendered == FilterOutput(cfg.output.contentFilter, raw)
             filePath == PathJoin(OutputPath(cfg), <<"H", "o", "m", "e">> \o cfg.output.file.extension)
         IN  [ops   |-> WriteFile(acc.ops, filePath, rendered, d),
              emits |-> Append(acc.emits, Emitted("home", raw, rendered, d))]

\* Variant: the name of a OnePerResource page
EndpointFileNameUnversioned(res, version) == res.displayName

\* res.displayName + '_' + version.uniqueId
EndpointFileName(res, version) == res.displayName \o <<"_">> \o version.uniqueId

\* lines 168-183
RECURSIVE EachEndpoint(_, _, _, _, _, _, _)
EachEndpoint(cfg, acc, item, version, arr, k, d) ==
    IF k > Len(arr) THEN [acc |-> acc, item |-> item]
    ELSE LET ctx == ResourceContext(item, arr[k])
         IN  EachEndpoint(cfg,
                 Page(cfg, acc, ctx, EndpointFileName(arr[k], version), "endpoint", d),
                 ctx, version, arr, k + 1, d)

\* lines 166-184
RECURSIVE EachVersion(_, _, _, _, _, _)
EachVersion(cfg, acc, item, arr, v, d) ==
    IF v > Len(arr) THEN acc
    ELSE LET r == EachEndpoint(cfg, acc, item, arr[v], arr[v].resources, 1, d)
         IN  EachVersion(cfg, r.acc, r.item, arr, v + 1, d)

RECURSIVE OnePerResourceVersioning(_, _, _, _)
OnePerResourceVersioning(cfg, acc, files, d) ==
    IF d > Len(files) THEN acc
    ELSE LET item == SortVersions(files[d])
         IN  OnePerResourceVersioning(cfg,
                 EachVersion(cfg, HomePage(cfg, acc, item, d), item, item.resources, 1, d),
                 files, d + 1)

NoOutput == [ops |-> <<>>, emits |-> <<>>]

\* lines 99-110
AllInOne(cfg, files) ==
    [ops   |-> WriteFile(<<>>, OutputPath(cfg), ArrayJoin(RenderAll(cfg, files), Separator), 0),
     emits |-> RenderAllEmits(cfg, files, "allInOne")]

\* lines 97-187
FileOutput(cfg, files) ==
    CASE cfg.output.file.splitting = "AllInOne" -> AllInOne(cfg, files)
      [] cfg.output.file.splitting = "OnePerResource" -> OnePerResource(cfg, NoOutput, files, 1)
      [] cfg.output.file.splitting = "OnePerResourceVersioning" ->
            OnePerResourceVersioning(cfg, NoOutput, files, 1)
      [] OTHER -> NoOutput

(***************************************************************************)
(* Callers' configurations                                                 *)
(***************************************************************************)
InputPaths == {"api", "v.raml", "plain.raml", "bad.raml", "gone"}

PathLists == UNION {[1..n -> InputPaths] : n \in 0..MaxPaths}

OutputTypes == {"ReturnOnly", "StdOut", "File"}

FileSplittings == {"AllInOne", "OnePerResource", "OnePerResourceVersioning"}

ContentFilters == {"default", "null", "empty", "undef", "mark"}

FileOverride(sp, p) ==
    CASE p = "none" -> [splitting |-> sp]
      [] p = "dir"  -> [splitting |-> sp, path |-> OutDir]
      [] OTHER      -> [splitting |-> sp, path |-> OutDir, extension |-> ExtTxt]

OutputOverride(t, sp, f, p, h) ==
    [input  |-> IF h THEN [paths |-> <<"api", "v.raml">>, homeTemplateFile |-> TemplateHome]
                     ELSE [paths |-> <<"api", "v.raml">>],
     output |-> [type |-> t, contentFilter |-> f, file |-> FileOverride(sp, p)]]

Overrides ==
    {[input |-> [paths |-> ps]] : ps \in PathLists}
    \cup {<<>>,
          [input |-> [paths |-> <<"api">>, recursive |-> TRUE]],
          [input |-> [paths |-> <<"api">>, fileFilter |-> "function"]],
          [input |-> [paths |-> <<"api", "v.raml">>, contentFilter |-> "rename"]],
          [output |-> [type |-> "File",
                       file |-> [splitting |-> "OnePerResource", path |-> OutDir]]]}
    \cup {OutputOverride(t, sp, f, p, h) :
            t \in OutputTypes, sp \in FileSplittings, f \in ContentFilters,
            p \in {"none", "dir", "ext"}, h \in BOOLEAN}

(***************************************************************************)
(* The calls                                                               *)
(***************************************************************************)
TypeError == [kind |-> "TypeError", at |-> <<0, 0>>]

Settled(promise) == promise.state # "pending"

NoPromise == [state |-> "none", reason |-> NoReason, value |-> <<>>]

Init ==
    /\ DefaultConfig = DefaultConfigAtLoad
    /\ calls = 0 /\ op = "none"
    /\ override = <<>> /\ config = <<>> /\ parseConfig = <<>>
    /\ listing = <<>> /\ slots = <<>> /\ failures = <<>> /\ completed = <<>>
    /\ inner = <<>> /\ outer = JointPromise(0, <<>>)
    /\ parsePromise = NoPromise /\ renderPromise = NoPromise
    /\ fsOps = <<>> /\ stdout = <<>> /\ emits = <<>>

\* lines 214-235: merge, list every path, launch every parse, await jointly
StartParse(shared, cfg) ==
    LET m     == MergeConfig(shared, cfg)
        lst   == [i \in 1..Len(m.config.input.paths) |-> ListingOutcome(m.config, i)]
        inn   == [i \in 1..Len(lst) |->
                    IF ~lst[i].ok THEN Rejected(lst[i].reason)
                    ELSE JointPromise(Len(lst[i].files), "")]
        bad   == {i \in 1..Len(lst) : ~lst[i].ok}
        fails == [k \in 1..Cardinality(bad) |->
                    lst[CHOOSE i \in bad : Cardinality({j \in bad : j < i}) = k - 1].reason]
    IN  /\ parseConfig' = m.config
        /\ DefaultConfig' = m.shared
        /\ listing' = lst
        /\ slots' = [i \in 1..Len(lst) |-> [j \in 1..Len(lst[i].files) |-> "pending"]]
        /\ failures' = fails
        /\ completed' = <<>>
        /\ inner' = inn
        /\ outer' = PromiseAllInit(JointPromise(Len(inn), <<>>), inn, 1)
        /\ parsePromise' = [NoPromise EXCEPT !.state = "pending"]
        /\ fsOps' = <<>> /\ stdout' = <<>> /\ emits' = <<>>

\* module.exports.parse(config), up to the first suspension
CallParse(cfg) ==
    /\ op = "none" /\ calls < MaxCalls
    /\ op' = "parse" /\ calls' = calls + 1 /\ override' = cfg
    /\ config' = <<>>
    /\ renderPromise' = NoPromise
    /\ StartParse(DefaultConfig, cfg)

\* module.exports.render(config), up to the first suspension: lines 81-92
CallRender(cfg) ==
    /\ op = "none" /\ calls < MaxCalls
    /\ op' = "render" /\ calls' = calls + 1 /\ override' = cfg
    /\ config' = MergeConfig(DefaultConfig, cfg).config
    /\ renderPromise' = [NoPromise EXCEPT !.state = "pending"]
    /\ StartParse(MergeConfig(DefaultConfig, cfg).shared, MergeConfig(DefaultConfig, cfg).config)

\* One raml2obj.parse(file) settles; the two Promise.all above it follow
SettleParse(i, j) ==
    /\ op # "none"
    /\ i \in 1..Len(slots) /\ j \in 1..Len(slots[i])
    /\ slots[i][j] = "pending"
    /\ LET event  == ParseOutcome(listing[i].files[j])
           reason == [kind |-> "ParseError", at |-> <<i, j>>]
           slots2 == [slots EXCEPT ![i][j] = event]
           inner2 == [inner EXCEPT ![i] = PromiseAll(@, slots2[i], event, j,
                                                     listing[i].files[j], reason)]
       IN  /\ slots' = slots2
           /\ inner' = inner2
           /\ outer' = IF inner2[i].state = inner[i].state THEN outer
                       ELSE PromiseAll(outer, [p \in 1..Len(inner2) |-> inner2[p].state],
                                       inner2[i].state, i, inner2[i].values, inner2[i].reason)
           /\ failures' = IF event = "rejected" THEN Append(failures, reason) ELSE failures
           /\ completed' = Append(completed, <<i, j>>)
    /\ UNCHANGED <<DefaultConfig, calls, op, override, config, parseConfig, listing,
                   parsePromise, renderPromise, fsOps, stdout, emits>>

\* The values the joint promise resolved with: per path, the documents of
\* the files whose parses resolved, as Promise.all stored them
LoadedItems ==
    [i \in 1..Len(outer.values) |->
        [j \in 1..Len(outer.values[i]) |-> ParsedDocument(outer.values[i][j])]]

\* lines 236-252: the fulfilment handler of parse
ParseThen ==
    /\ op # "none" /\ parsePromise.state = "pending" /\ outer.state = "resolved"
    /\ LET relaxed == FilterInput(parseConfig.input.contentFilter, unwindArray(LoadedItems))
       IN  parsePromise' =
              IF recursiveEachThrows(relaxed)
              THEN [state |-> "rejected", reason |-> TypeError, value |-> <<>>]
              ELSE [state |-> "resolved", reason |-> NoReason, value |-> recursiveEach(relaxed)]
    /\ UNCHANGED <<DefaultConfig, calls, op, override, config, parseConfig, listing, slots,
                   failures, completed, inner, outer, renderPromise, fsOps, stdout, emits>>

\* A rejection of the joint promise passes through .then to parse's promise
ParseRejected ==
    /\ op # "none" /\ parsePromise.state = "pending" /\ outer.state = "rejected"
    /\ parsePromise' = [state |-> "rejected", reason |-> outer.reason, value |-> <<>>]
    /\ UNCHANGED <<DefaultConfig, calls, op, override, config, parseConfig, listing, slots,
                   failures, completed, inner, outer, renderPromise, fsOps, stdout, emits>>

\* Variant: the handler not waiting for parse
RenderReadyEarly == parsePromise.state # "rejected"

\* this.parse(config).then(files => ...): the handler runs once parse resolved
RenderReady == parsePromise.state = "resolved"

\* lines 92-204: the fulfilment handler of render
RenderThen ==
    /\ op = "render" /\ renderPromise.state = "pending" /\ RenderReady
    /\ LET files == parsePromise.value
           out   == FileOutput(config, files)
       IN  IF config.output.type = "File"
           THEN IF OutputPath(config) = Null /\ out.ops # <<>>
                THEN \* path.join, mkdirp and writeFileSync throw on a null path
                     /\ renderPromise' = [state |-> "rejected", reason |-> TypeError,
                                          value |-> JsUndefined]
                     /\ UNCHANGED <<fsOps, stdout, emits>>
                ELSE /\ fsOps' = out.ops
                     /\ emits' = out.emits
                     /\ renderPromise' = [state |-> "resolved", reason |-> NoReason,
                                          value |-> JsUndefined]
                     /\ UNCHANGED stdout
           ELSE LET rendered == ArrayJoin(RenderAll(config, files), Separator)
                IN  /\ emits' = RenderAllEmits(config, files, "joined")
                    /\ stdout' = IF config.output.type = "StdOut"
                                 THEN Append(stdout, rendered) ELSE stdout
                    /\ renderPromise' =
                          [state |-> "resolved", reason |-> NoReason,
                           value |-> IF config.output.type = "ReturnOnly"
                                     THEN JsString(rendered) ELSE JsUndefined]
                    /\ UNCHANGED fsOps
    /\ UNCHANGED <<DefaultConfig, calls, op, override, config, parseConfig, listing, slots,
                   failures, completed, inner, outer, parsePromise>>

\* A rejection of parse passes through .then to render's promise
RenderRejected ==
    /\ op = "render" /\ renderPromise.state = "pending" /\ parsePromise.state = "rejected"
    /\ renderPromise' = [state |-> "rejected", reason |-> parsePromise.reason,
                         value |-> JsUndefined]
    /\ UNCHANGED <<DefaultConfig, calls, op, override, config, parseConfig, listing, slots,
                   failures, completed, inner, outer, parsePromise, fsOps, stdout, emits>>

AllSettled == \A i \in 1..Len(slots) : \A j \in 1..Len(slots[i]) : slots[i][j] # "pending"

CallDone ==
    /\ AllSettled
    /\ \/ op = "parse" /\ Settled(parsePromise)
       \/ op = "render" /\ Settled(renderPromise)

\* The caller has the outcome and every launched parse has settled: the call
\* leaves nothing behind but the shared default configuration
Finish ==
    /\ CallDone
    /\ op' = "none"
    /\ override' = <<>> /\ config' = <<>> /\ parseConfig' = <<>>
    /\ listing' = <<>> /\ slots' = <<>> /\ failures' = <<>> /\ completed' = <<>>
    /\ inner' = <<>> /\ outer' = JointPromise(0, <<>>)
    /\ parsePromise' = NoPromise /\ renderPromise' = NoPromise
    /\ fsOps' = <<>> /\ stdout' = <<>> /\ emits' = <<>>
    /\ UNCHANGED <<DefaultConfig, calls>>

Next ==
    \/ \E cfg \in Overrides : CallParse(cfg)
    \/ \E cfg \in Overrides : CallRender(cfg)
    \/ \E i \in 1..Len(slots) : \E j \in 1..Len(slots[i]) : SettleParse(i, j)
    \/ ParseThen
    \/ ParseRejected
    \/ RenderThen
    \/ RenderRejected
    \/ Finish

Spec == Init /\ [][Next]_vars
(***************************************************************************)
(* Properties                                                              *)
(***************************************************************************)
RECURSIVE NodesOf(_)
\* Every node the walk over resources/methods/responses/body visits
NodesOf(node) ==
    {node} \cup UNION {UNION {NodesOf(node[deepKeys[k]][i]) : i \in 1..Len(node[deepKeys[k]])} :
                          k \in 1..Len(deepKeys)}

VisitedNodes(docs) == UNION {NodesOf(docs[d]) : d \in 1..Len(docs)}

SortedByDisplayName(list) ==
    \A i \in 1..(Len(list) - 1) :
        LocaleCompare(list[i].displayName, list[i + 1].displayName) <= 0

Writes == SelectSeq(fsOps, LAMBDA e : e.op = "write")

RenderResolvedAs(type, splitting) ==
    /\ op = "render" /\ renderPromise.state = "resolved"
    /\ config.output.type = type
    /\ type = "File" => config.output.file.splitting = splitting

\* The documents the .then of parse was handed, before the walk sorted them
Unwound == FilterInput(parseConfig.input.contentFilter, unwindArray(LoadedItems))

\* C1: whenever every listing and every file parse succeeded, parse resolves
\* with the documents, also when a visited node has neither properties nor
\* items: the per-node callback is a no-op there and does not throw.
C1_MissingCollectionsAreNoOp ==
    (op # "none" /\ outer.state = "resolved" /\ Settled(parsePromise))
        => /\ parsePromise.state = "resolved"
           /\ Len(parsePromise.value) = Len(Unwound)

\* C2 as stated: in the documents parse resolves with, every collection a
\* visited node carries, properties as well as items.properties, is sorted
\* non-decreasing by displayName.
C2_EveryCollectionSorted ==
    parsePromise.state = "resolved" =>
        \A n \in VisitedNodes(parsePromise.value) :
            /\ n.properties.has => SortedByDisplayName(n.properties.list)
            /\ n.items.properties.has => SortedByDisplayName(n.items.properties.list)

\* C2 as amended: in the documents parse resolves with, the collection the
\* lookup selects at a visited node (properties when the node has it,
\* items.properties otherwise) is sorted non-decreasing by displayName, and the
\* items.properties of a node that also has properties keeps its order.
C2_SelectedCollectionSorted ==
    parsePromise.state = "resolved" =>
        /\ \A n \in VisitedNodes(parsePromise.value) :
              /\ n.properties.has => SortedByDisplayName(n.properties.list)
              /\ (~n.properties.has /\ n.items.properties.has)
                    => SortedByDisplayName(n.items.properties.list)
        /\ \A n \in VisitedNodes(Unwound) :
              (n.properties.has /\ n.items.properties.has) =>
                  \E m \in VisitedNodes(parsePromise.value) :
                      /\ m.displayName = n.displayName
                      /\ m.items.properties.list = n.items.properties.list

C2_Witness ==
    /\ parsePromise.state = "resolved"
    /\ parsePromise.value # Unwound
    /\ \E n \in VisitedNodes(Unwound) :
          /\ ~n.properties.has /\ n.items.properties.has
          /\ ~SortedByDisplayName(n.items.properties.list)
    /\ \E n \in VisitedNodes(Unwound) :
          n.properties.has /\ Len(n.properties.list) = 3
            /\ ~SortedByDisplayName(n.properties.list)

PathMissing(i) ==
    ~IsFile(parseConfig.input.paths[i]) /\ ~IsDirectory(parseConfig.input.paths[i])

LoadFails ==
    \/ \E i \in 1..Len(parseConfig.input.paths) : PathMissing(i)
    \/ \E i \in 1..Len(listing) : \E j \in 1..Len(listing[i].files) :
          ParseOutcome(listing[i].files[j]) = "rejected"

\* C3: when an input path does not exist or a file parse rejects, parse and
\* render never resolve; once a failure has occurred they reject with the
\* first failure that occurred.
C3_FailFast ==
    op # "none" =>
        /\ LoadFails => (parsePromise.state # "resolved" /\ renderPromise.state # "resolved")
        /\ (\E i \in 1..Len(parseConfig.input.paths) : PathMissing(i)) => failures # <<>>
        /\ failures # <<>> =>
              /\ outer.state = "rejected" /\ outer.reason = failures[1]
              /\ Settled(parsePromise) =>
                    (parsePromise.state = "rejected" /\ parsePromise.reason = failures[1])
              /\ (op = "render" /\ Settled(renderPromise)) =>
                    (renderPromise.state = "rejected" /\ renderPromise.reason = failures[1])

C3_Witness ==
    /\ op = "render" /\ renderPromise.state = "rejected"
    /\ Len(failures) = 2
    /\ failures[1] = [kind |-> "ParseError", at |-> <<2, 1>>]
    /\ failures[2] = [kind |-> "ParseError", at |-> <<1, 1>>]
    /\ renderPromise.reason = failures[1]

\* The documents of the listed files, in submission order: per path, then per
\* file in listing order
SubmittedNames ==
    Flatten([i \in 1..Len(listing) |->
        [j \in 1..Len(listing[i].files) |->
            IF parseConfig.input.contentFilter = "null"
            THEN ParsedDocument(listing[i].files[j]).displayName
            ELSE <<"~">> \o ParsedDocument(listing[i].files[j]).displayName]])

\* C4: whatever the order in which the file parses complete, the documents
\* parse resolves with are in submission order: by input path, then by the
\* file listing of the path.
C4_SubmissionOrder ==
    parsePromise.state = "resolved" =>
        [k \in 1..Len(parsePromise.value) |-> parsePromise.value[k].displayName]
            = SubmittedNames

C4_Witness ==
    /\ parsePromise.state = "resolved"
    /\ completed = << <<2, 1>>, <<1, 2>>, <<1, 1>> >>
    /\ [k \in 1..Len(parsePromise.value) |-> parsePromise.value[k].displayName]
          = << <<"A">>, <<"B">>, <<"V">> >>

\* The pieces joined by exactly "\n\n\n"
JoinedByThreeNewlines(pieces) ==
    IF pieces = <<>> THEN <<>>
    ELSE pieces[1] \o Flatten([k \in 1..(Len(pieces) - 1) |->
                                  <<"\n", "\n", "\n">> \o pieces[k + 1]])

\* C5: for ReturnOnly, StdOut and File/AllInOne the text is the per-document
\* renders, filtered, in document order, joined by exactly "\n\n\n", and it goes
\* to one destination: the resolved value, stdout, or one file at the output path.
C5_JoinedToOneDestination ==
    LET S == JoinedByThreeNewlines(RenderAll(config, parsePromise.value))
    IN  /\ RenderResolvedAs("ReturnOnly", "") =>
              /\ renderPromise.value = JsString(S)
              /\ fsOps = <<>> /\ stdout = <<>>
        /\ RenderResolvedAs("StdOut", "") =>
              /\ stdout = <<S>>
              /\ renderPromise.value = JsUndefined /\ fsOps = <<>>
        /\ RenderResolvedAs("File", "AllInOne") =>
              /\ Writes = <<Write_(PathResolve(config.output.file.path), S, 0)>>
              /\ renderPromise.value = JsUndefined /\ stdout = <<>>

C5_Witness ==
    /\ RenderResolvedAs("File", "AllInOne")
    /\ Len(parsePromise.value) = 3
    /\ Len(Writes) = 1
    /\ config.output.contentFilter = "default"

FilesOnDisk(d) == {Writes[k].path : k \in {k \in 1..Len(Writes) : Writes[k].doc = d}}

\* The page render is expected to write for one resource alone in context
ExpectedPage(item, res, name, d) ==
    Write_(PathResolve(config.output.file.path) \o <<"/">> \o name \o config.output.file.extension,
           FilterOutput(config.output.contentFilter,
                        NunjucksRender(PathResolve(config.input.templateFile),
                                       [item EXCEPT !.resources = <<res>>])),
           d)

WritesOfDoc(d) == SelectSeq(Writes, LAMBDA e : e.doc = d)

HomeConfigured == "homeTemplateFile" \in DOMAIN config.input

\* The endpoints of a document: version group index, endpoint index
EndpointsOf(item) ==
    UNION {{<<v, e>> : e \in 1..Len(item.resources[v].resources)} :
              v \in 1..Len(item.resources)}

ExpectedEndpointPage(item, p, d) ==
    ExpectedPage(item, item.resources[p[1]].resources[p[2]],
                 item.resources[p[1]].resources[p[2]].displayName \o <<"_">>
                    \o item.resources[p[1]].uniqueId, d)

\* C7: with OnePerResourceVersioning every endpoint of every version group of
\* a document gets exactly one page, <displayName>_<uniqueId><extension>,
\* rendered with that endpoint alone in context; Home<extension>, when a home
\* template is configured, is written once per document, with the whole
\* document as context, before the document's endpoint pages.
C7_OnePagePerEndpoint ==
    RenderResolvedAs("File", "OnePerResourceVersioning") =>
        /\ \A k \in 1..(Len(Writes) - 1) : Writes[k].doc <= Writes[k + 1].doc
        /\ \A d \in 1..Len(parsePromise.value) :
              LET item  == parsePromise.value[d]
                  w     == WritesOfDoc(d)
                  h     == IF HomeConfigured THEN 1 ELSE 0
                  pages == SubSeq(w, h + 1, Len(w))
              IN  /\ Len(pages) = Cardinality(EndpointsOf(item))
                  /\ HomeConfigured =>
                        /\ Len(w) >= 1
                        /\ w[1].path = PathResolve(config.output.file.path)
                                          \o <<"/", "H", "o", "m", "e">>
                                          \o config.output.file.extension
                        /\ w[1].data = FilterOutput(config.output.contentFilter,
                                          NunjucksRender(
                                              PathResolve(config.input.homeTemplateFile),
                                              SortVersions(item)))
                  /\ \A p \in EndpointsOf(item) :
                        Cardinality({k \in 1..Len(pages) :
                                        pages[k] = ExpectedEndpointPage(item, p, d)})
                          = Cardinality({q \in EndpointsOf(item) :
                                            ExpectedEndpointPage(item, q, d)
                                              = ExpectedEndpointPage(item, p, d)})

C7_Witness ==
    /\ RenderResolvedAs("File", "OnePerResourceVersioning")
    /\ HomeConfigured
    /\ Len(parsePromise.value) = 3
    /\ Len(WritesOfDoc(3)) = 6
    /\ Cardinality(EndpointsOf(parsePromise.value[3])) = 5

\* What the replace-if-truthy policy emits for a render
ReplaceIfTruthy(raw) ==
    IF config.output.contentFilter = "null" THEN raw
    ELSE IF Truthy(ContentFilterCall(config.output.contentFilter, raw))
         THEN ContentFilterCall(config.output.contentFilter, raw).s
         ELSE raw

\* C8: everywhere render applies the output content filter, the emitted text
\* is the filter's value when that is truthy, the unfiltered render when it is
\* falsy, and the render unchanged when no filter is configured; the emitted
\* texts are what is returned, printed or written.
C8_ReplaceIfTruthy ==
    (op = "render" /\ renderPromise.state = "resolved") =>
        /\ \A k \in 1..Len(emits) : emits[k].out = ReplaceIfTruthy(emits[k].raw)
        /\ (config.output.type = "File" /\ config.output.file.splitting # "AllInOne")
              => Writes = [k \in 1..Len(emits) |-> [Writes[k] EXCEPT !.data = emits[k].out]]
        /\ (config.output.type = "File" /\ config.output.file.splitting = "AllInOne")
              => Writes[1].data
                    = JoinedByThreeNewlines([k \in 1..Len(emits) |-> emits[k].out])
        /\ config.output.type = "ReturnOnly"
              => renderPromise.value
                    = JsString(JoinedByThreeNewlines([k \in 1..Len(emits) |-> emits[k].out]))
        /\ config.output.type = "StdOut"
              => stdout = <<JoinedByThreeNewlines([k \in 1..Len(emits) |-> emits[k].out])>>

C8_Witness ==
    /\ RenderResolvedAs("File", "OnePerResourceVersioning")
    /\ config.output.contentFilter = "undef"
    /\ \E k \in 1..Len(emits) :
          emits[k].site = "home" /\ emits[k].raw # <<>> /\ Writes[k].data = emits[k].raw
    /\ \E k \in 1..Len(emits) :
          emits[k].site = "endpoint" /\ emits[k].raw # <<>> /\ Writes[k].data = emits[k].raw

\* The value a call's configuration is expected to hold at a field: the
\* caller's when the caller gives one, the one of the module's load otherwise
Effective(path) ==
    LET Has(c, q) == q[1] \in DOMAIN c /\ (Len(q) = 1 \/ q[2] \in DOMAIN c[q[1]])
                        /\ (Len(q) <= 2 \/ q[3] \in DOMAIN c[q[1]][q[2]])
        Get(c, q) == IF Len(q) = 1 THEN c[q[1]]
                     ELSE IF Len(q) = 2 THEN c[q[1]][q[2]] ELSE c[q[1]][q[2]][q[3]]
    IN  IF Has(override, path) THEN [has |-> TRUE, v |-> Get(override, path)]
        ELSE IF Has(DefaultConfigAtLoad, path)
             THEN [has |-> TRUE, v |-> Get(DefaultConfigAtLoad, path)]
             ELSE [has |-> FALSE, v |-> <<>>]

ConfigFields ==
    {<<"input", "paths">>, <<"input", "recursive">>, <<"input", "fileFilter">>,
     <<"input", "templateFile">>, <<"input", "homeTemplateFile">>,
     <<"input", "contentFilter">>, <<"output", "type">>, <<"output", "contentFilter">>,
     <<"output", "file", "splitting">>, <<"output", "file", "path">>,
     <<"output", "file", "extension">>}

HoldsEffective(c) ==
    \A q \in ConfigFields :
        LET inner1 == c[q[1]]
            present == IF Len(q) = 2 THEN q[2] \in DOMAIN inner1
                       ELSE q[3] \in DOMAIN inner1[q[2]]
        IN  /\ present = Effective(q).has
            /\ present => (IF Len(q) = 2 THEN inner1[q[2]] ELSE inner1[q[2]][q[3]])
                              = Effective(q).v

\* C9: DefaultConfig always holds what it held when the module was loaded, and
\* the configuration of every call is the caller's overrides over those
\* defaults, whatever earlier calls overrode.
C9_DefaultConfigNeverMutated ==
    /\ DefaultConfig = DefaultConfigAtLoad
    /\ op # "none" => HoldsEffective(parseConfig)
    /\ op = "render" => HoldsEffective(config)

C9_Witness ==
    /\ calls = 2 /\ op = "render"
    /\ override = [input |-> [paths |-> <<"api">>, recursive |-> TRUE]]
    /\ parseConfig.output.type = "ReturnOnly"
    /\ parseConfig.output.file.extension = ExtMd
    /\ DefaultConfig.input.paths = <<>>

\* C10: render writes no file, creates no directory and prints nothing before
\* every file parse of every input path has resolved, and nothing at all in a
\* call where a listing or a parse fails.
C10_OutputAfterParse ==
    /\ (fsOps # <<>> \/ stdout # <<>>) =>
          /\ failures = <<>>
          /\ \A i \in 1..Len(listing) : listing[i].ok
          /\ \A i \in 1..Len(slots) : \A j \in 1..Len(slots[i]) : slots[i][j] = "resolved"
          /\ Len(completed) = Len(Flatten([i \in 1..Len(listing) |-> listing[i].files]))
    /\ (op # "none" /\ LoadFails) => (fsOps = <<>> /\ stdout = <<>>)

C10_Witness ==
    /\ op = "render"
    /\ Len(completed) = 3 /\ completed[1] = <<2, 1>>
    /\ Len(Writes) >= 2
    /\ Len(fsOps) > Len(Writes)
====
